---- MODULE Spec2Model ----
(***************************************************************************)
(* The random-walk model of 02_separation.ipynb: PeriodicSpace, Particles  *)
(* and run_random_walk.                                                    *)
(*                                                                         *)
(* Numbers.  The notebook computes in binary floating point (numpy         *)
(* float64).  A float is modelled as an integer count of quanta, one       *)
(* quantum being 2^-FracBits, whose magnitude is m * 2^k with m < 2^Prec   *)
(* and k >= 0: round-to-nearest, ties-to-even, with Prec significant bits  *)
(* instead of 53.  NaN is a value of its own that every operation          *)
(* propagates.                                                             *)
(***************************************************************************)
EXTENDS Integers, Sequences, FiniteSets

\* Significant bits of a float (53 in float64).
Prec == 4
\* Fractional bits of the quantum: 1.0 is 2^FracBits quanta.
FracBits == 2
\* Most move() calls on one ensemble in the free-running ensemble model.
MaxSteps == 2

One == 2 ^ FracBits

\* The float that is not a number (numpy's nan); no number of the model
\* reaches this magnitude.
NaN == -(2 ^ 30)

Abs(n) == IF n < 0 THEN -n ELSE n

RECURSIVE QuantumOf(_, _, _)
\* The spacing 2^k of the floats around the magnitude a/den: the least
\* k >= 0 with a/den < 2^(Prec + k).
QuantumOf(a, den, q) ==
    IF a < (2 ^ Prec) * q * den THEN q ELSE QuantumOf(a, den, 2 * q)

\* The float nearest to the rational num/den (den > 0), ties to even.
RoundRat(num, den) ==
    LET a   == Abs(num)
        q   == QuantumOf(a, den, 1)
        t   == a \div (den * q)
        rem == a - t * den * q
        up  == \/ 2 * rem > den * q
               \/ 2 * rem = den * q /\ t % 2 = 1
        m   == (IF up THEN t + 1 ELSE t) * q
    IN  IF num < 0 THEN -m ELSE m

IsFloat(v) == v = NaN \/ RoundRat(v, 1) = v

\* a + b, a * b, a / b as float64 computes them: exact result, then rounded.
FAdd(a, b) == IF a = NaN \/ b = NaN THEN NaN ELSE RoundRat(a + b, 1)

FMul(a, b) == IF a = NaN \/ b = NaN THEN NaN ELSE RoundRat(a * b, One)

\* b = 0 arises only as 0.0 / 0 (the mean of an empty array), which is nan.
FDiv(a, b) ==
    IF a = NaN \/ b = NaN \/ b = 0 THEN NaN
    ELSE IF b < 0 THEN RoundRat(-(a * One), -b) ELSE RoundRat(a * One, b)

\* C's fmod: the remainder of a / b truncated toward zero, with the sign of
\* a; always exact.
CFmod(a, b) ==
    LET r == Abs(a) % Abs(b) IN IF a < 0 THEN -r ELSE r

\* numpy's np.mod on floats (npy_divmod): fmod, then the divisor is added
\* when the remainder is not zero and its sign differs from the divisor's;
\* that addition rounds.  A zero divisor gives nan.
NpMod(a, b) ==
    IF a = NaN \/ b = NaN \/ b = 0 THEN NaN
    ELSE LET r == CFmod(a, b)
         IN  IF r # 0 /\ ((b < 0) # (r < 0)) THEN FAdd(r, b) ELSE r


(***************************************************************************)
(* Arrays (numpy ndarrays of float64) are sequences of floats.             *)
(***************************************************************************)
RECURSIVE SumFrom(_, _, _)
\* np.add.reduce over a short array: left to right, rounding each partial
\* sum, starting from acc.
SumFrom(a, i, acc) ==
    IF i > Len(a) THEN acc ELSE SumFrom(a, i + 1, FAdd(acc, a[i]))

\* ndarray.mean(): the sum divided by the element count.
Mean(a) == FDiv(SumFrom(a, 1, 0), Len(a) * One)

\* ndarray.var() with ddof = 0: the mean of the squared deviations from
\* the mean.
Var(a) ==
    LET m  == Mean(a)
        d  == [i \in 1..Len(a) |-> FAdd(a[i], IF m = NaN THEN NaN ELSE -m)]
        d2 == [i \in 1..Len(a) |-> FMul(d[i], d[i])]
    IN  FDiv(SumFrom(d2, 1, 0), Len(a) * One)

\* np.ones((n,)) * length / 2.0
Centered(n, length) ==
    [i \in 1..n |-> FDiv(FMul(One, length), 2 * One)]

(***************************************************************************)
(* The random source, numpy.random.RandomState: a deterministic stream.    *)
(* Its state is a position in a cycle of standard-normal draws; seeding    *)
(* picks the position.                                                     *)
(***************************************************************************)
\* The draws of the cycle, in quanta: -1.0, 0.25, -2.5, 1.75, -0.25.
NormalCycle == << -One, 1, -(10 * One) \div 4, (7 * One) \div 4, -1 >>

\* The positions an unseeded RandomState() may start from (it seeds from
\* the operating system's entropy).
Seeds == 0 .. (Len(NormalCycle) - 1)

\* rng.normal(size = n) from state s: the n draws.
Normal(s, n) == [i \in 1..n |-> NormalCycle[((s + i - 1) % Len(NormalCycle)) + 1]]

\* The state after n draws.
Advance(s, n) == (s + n) % Len(NormalCycle)

(***************************************************************************)
(* State.  Objects live in per-class stores and are named by their index.  *)
(***************************************************************************)
VARIABLES
    heap,        \* the ndarrays: heap[a] is the content of array a
    spaces,      \* the PeriodicSpace objects: [length_x, length_y]
    rngs,        \* the RandomState objects: the stream position of each
    particles,   \* the Particles objects: [rng, space, x, y, step_length,
                 \*   steps_done]; rng, space, x and y are references
    calls,       \* history: calls[e] = the move() calls made on ensemble e
    given,       \* history: given[e] = the positions ensemble e was
                 \*   constructed with, << x, y >>
    snap,        \* the DataFrame a positions() call returned, kept by the
                 \*   caller: [of, x, y, x0, y0, at], x and y references,
                 \*   x0 and y0 the positions when it was taken (history)
    ret,         \* the value the last query returned
    pc,          \* run_random_walk: the statement about to execute
    args,        \* run_random_walk: its arguments
    frame,       \* run_random_walk: its locals (and, as history, the
                 \*   position its random stream started from)
    taken,       \* history: [calls, steps_done] of the ensemble at each
                 \*   diagnostics() of the execution
    returned     \* the results of the finished executions, oldest first

vars == << heap, spaces, rngs, particles, calls, given, snap, ret,
           pc, args, frame, taken, returned >>

runVars == << pc, args, frame, taken, returned >>

None == [none |-> TRUE]

\* The default arguments of Particles.__init__, evaluated once, when the
\* class is defined: object 1 of each store.
DefaultRng == 1
DefaultSpace == 1

\* PeriodicSpace.__init__
PeriodicSpace(length_x, length_y) ==
    [length_x |-> length_x, length_y |-> length_y]

\* PeriodicSpace.normalize_positions on arrays x, y
normalize_positions(space, x, y) ==
    << [i \in 1..Len(x) |-> NpMod(x[i], space.length_x)],
       [i \in 1..Len(y) |-> NpMod(y[i], space.length_y)] >>

Init ==
    /\ heap = << >>
    /\ spaces = << PeriodicSpace(10 * One, 20 * One) >>
    /\ \E s \in Seeds : rngs = << s >>
    /\ particles = << >>
    /\ calls = << >>
    /\ given = << >>
    /\ snap = None
    /\ ret = None
    /\ pc = "idle"
    /\ args = None
    /\ frame = None
    /\ taken = << >>
    /\ returned = << >>

(***************************************************************************)
(* class Particles                                                         *)
(***************************************************************************)
\* Particles.__init__: keeps the references it is given.
ParticlesInit(rng, space, x, y, step_length) ==
    [rng |-> rng, space |-> space, x |-> x, y |-> y,
     step_length |-> step_length, steps_done |-> 0]

\* AddScaled with the step length left out of the displacement.
AddUnscaled(a, step_length, draws) ==
    [i \in 1..Len(a) |-> FAdd(a[i], draws[i])]

\* a += step_length * draws, element by element, into the same array.
AddScaled(a, step_length, draws) ==
    [i \in 1..Len(a) |-> FAdd(a[i], FMul(step_length, draws[i]))]

\* NextStepsDone written as an assignment, steps_done = 1.
NextStepsDoneAssigned(p) == 1

\* The steps_done of p after one move().
NextStepsDone(p) == p.steps_done + 1

\* MoveResult written with x = x + ... in place of x += ...: the sums go
\* to new arrays and the arrays x and y referred to are left alone.
MoveResultCopying(e) ==
    LET p  == particles[e]
        s0 == rngs[p.rng]
        nx == Len(heap[p.x])
        x1 == AddScaled(heap[p.x], p.step_length, Normal(s0, nx))
        s1 == Advance(s0, nx)
        ny == Len(heap[p.y])
        y1 == AddScaled(heap[p.y], p.step_length, Normal(s1, ny))
        s2 == Advance(s1, ny)
        nm == normalize_positions(spaces[p.space], x1, y1)
    IN  [heap      |-> heap \o << nm[1], nm[2] >>,
         rngs      |-> [rngs EXCEPT ![p.rng] = s2],
         particles |-> [particles EXCEPT
                          ![e].x = Len(heap) + 1,
                          ![e].y = Len(heap) + 2,
                          ![e].steps_done = p.steps_done + 1]]

\* Particles.move on ensemble e: the stores after the call, as
\* [heap, rngs, particles].  The two += statements change the arrays x and
\* y refer to, in place, each consuming len draws; normalize_positions
\* returns two new arrays, to which x and y are rebound.
MoveResult(e) ==
    LET p  == particles[e]
        s0 == rngs[p.rng]
        nx == Len(heap[p.x])
        h1 == [heap EXCEPT ![p.x] = AddScaled(@, p.step_length, Normal(s0, nx))]
        s1 == Advance(s0, nx)
        ny == Len(h1[p.y])
        h2 == [h1 EXCEPT ![p.y] = AddScaled(@, p.step_length, Normal(s1, ny))]
        s2 == Advance(s1, ny)
        nm == normalize_positions(spaces[p.space], h2[p.x], h2[p.y])
    IN  [heap      |-> h2 \o << nm[1], nm[2] >>,
         rngs      |-> [rngs EXCEPT ![p.rng] = s2],
         particles |-> [particles EXCEPT
                          ![e].x = Len(h2) + 1,
                          ![e].y = Len(h2) + 2,
                          ![e].steps_done = NextStepsDone(p)]]

\* Particles.center_of_mass of ensemble p, the arrays being h
center_of_mass(h, p) == << Mean(h[p.x]), Mean(h[p.y]) >>

\* Particles.moment_of_inertia
moment_of_inertia(h, p) == FAdd(Var(h[p.x]), Var(h[p.y]))

\* Particles.diagnostics: a one-row DataFrame, the row labelled steps_done.
diagnostics(h, p) ==
    LET com == center_of_mass(h, p)
        mi  == moment_of_inertia(h, p)
    IN  << [index |-> p.steps_done,
            center_of_mass_x |-> com[1],
            center_of_mass_y |-> com[2],
            moment_of_inertia |-> mi] >>

\* FrameColumns keeping the ensemble's own arrays as the columns.
FrameColumnsAliased(h, x, y) == [heap |-> h, x |-> x, y |-> y]

\* The arrays a DataFrame built from the columns x and y holds, given the
\* heap h: pandas copies the columns of a dict into storage of its own,
\* so they are two new arrays.
FrameColumns(h, x, y) ==
    [heap |-> h \o << h[x], h[y] >>, x |-> Len(h) + 1, y |-> Len(h) + 2]

(***************************************************************************)
(* The free-running ensemble models: a caller constructs ensembles and     *)
(* calls their methods in any order.  SpecEnsemble has one ensemble and    *)
(* wide inputs, SpecPair two ensembles and narrow ones.                    *)
(***************************************************************************)
\* The position arrays a caller hands to the constructor: one particle on
\* the domain's corner, two particles at the centre of the default domain,
\* one particle outside every domain.
PosInits ==
    { << << 0 >>, << 0 >> >>,
      << Centered(2, 10 * One), Centered(2, 20 * One) >>,
      << << -One >>, << 24 * One >> >> }

\* 0, the least positive float, 2.0
StepLengths == { 0, 1, 2 * One }

\* The extents of a domain the caller constructs itself.
OwnExtents == { << 4 * One, 10 * One >> }

\* p = Particles(rng=..., space=..., x=..., y=..., step_length=...), the
\* next ensemble; rng and space are either left to their defaults or
\* constructed by the caller for this ensemble alone.
Construct(ensembles, seeds, spaceChoices, positions, stepLengths) ==
    /\ Len(particles) < ensembles
    /\ \E ownRng \in BOOLEAN, ownSpace \in spaceChoices, seed \in seeds,
          ext \in OwnExtents, pos \in positions, sl \in stepLengths :
         /\ rngs' = IF ownRng THEN Append(rngs, seed) ELSE rngs
         /\ spaces' = IF ownSpace
                      THEN Append(spaces, PeriodicSpace(ext[1], ext[2]))
                      ELSE spaces
         /\ heap' = heap \o << pos[1], pos[2] >>
         /\ given' = Append(given, pos)
         /\ particles' = Append(particles,
               ParticlesInit(IF ownRng THEN Len(rngs) + 1 ELSE DefaultRng,
                             IF ownSpace THEN Len(spaces) + 1 ELSE DefaultSpace,
                             Len(heap) + 1, Len(heap) + 2, sl))
    /\ calls' = Append(calls, 0)
    /\ UNCHANGED << snap, ret, runVars >>

\* p.move()
Move(e) ==
    /\ e \in DOMAIN particles
    /\ calls[e] < MaxSteps
    /\ LET r == MoveResult(e)
       IN  /\ heap' = r.heap
           /\ rngs' = r.rngs
           /\ particles' = r.particles
    /\ calls' = [calls EXCEPT ![e] = @ + 1]
    /\ UNCHANGED << spaces, given, snap, ret, runVars >>

\* p.center_of_mass()
CenterOfMass(e) ==
    /\ e \in DOMAIN particles
    /\ ret' = [op |-> "center_of_mass", of |-> e, value |-> center_of_mass(heap, particles[e])]
    /\ UNCHANGED << heap, spaces, rngs, particles, calls, given, snap, runVars >>

\* p.moment_of_inertia()
MomentOfInertia(e) ==
    /\ e \in DOMAIN particles
    /\ ret' = [op |-> "moment_of_inertia", of |-> e,
               value |-> moment_of_inertia(heap, particles[e])]
    /\ UNCHANGED << heap, spaces, rngs, particles, calls, given, snap, runVars >>

\* Diagnostics that also counts a step.
DiagnosticsCounting(e) ==
    /\ e \in DOMAIN particles
    /\ particles[e].steps_done < MaxSteps
    /\ ret' = [op |-> "diagnostics", of |-> e,
               value |-> diagnostics(heap, particles[e])]
    /\ particles' = [particles EXCEPT ![e].steps_done = @ + 1]
    /\ UNCHANGED << heap, spaces, rngs, calls, given, snap, runVars >>

\* p.diagnostics()
Diagnostics(e) ==
    /\ e \in DOMAIN particles
    /\ ret' = [op |-> "diagnostics", of |-> e, value |-> diagnostics(heap, particles[e])]
    /\ UNCHANGED << heap, spaces, rngs, particles, calls, given, snap, runVars >>

\* snapshot = p.positions(); the caller keeps the first one it takes.
Positions(e) ==
    /\ e \in DOMAIN particles
    /\ snap = None
    /\ LET f == FrameColumns(heap, particles[e].x, particles[e].y)
       IN  /\ heap' = f.heap
           /\ snap' = [of |-> e, x |-> f.x, y |-> f.y,
                       x0 |-> heap[particles[e].x],
                       y0 |-> heap[particles[e].y],
                       at |-> calls[e]]
    /\ ret' = [op |-> "positions", of |-> e, value |-> << >>]
    /\ UNCHANGED << spaces, rngs, particles, calls, given, runVars >>

NextEnsemble ==
    \/ Construct(1, Seeds, BOOLEAN, PosInits, StepLengths)
    \/ Move(1)
    \/ CenterOfMass(1)
    \/ MomentOfInertia(1)
    \/ Diagnostics(1)
    \/ Positions(1)

SpecEnsemble == Init /\ [][NextEnsemble]_vars

NextPair ==
    \/ Construct(2, {0}, {FALSE},
                 { << << 5 * One >>, << 10 * One >> >> }, { One \div 2 })
    \/ \E e \in {1, 2} : Move(e)
    \/ \E e \in {1, 2} : Diagnostics(e)

SpecPair == Init /\ [][NextPair]_vars

(***************************************************************************)
(* run_random_walk, statement by statement.  The notebook is one thread:   *)
(* an execution starts when the one before it has ended.  The second       *)
(* execution repeats the arguments of the first; there is no third.        *)
(***************************************************************************)
\* The argument values tried: the defaults 10 and 20, a small domain, and
\* values outside what the domain, the count and the step length allow.
LengthXs == { -(4 * One), 0, 10 * One }
LengthYs == { 0, 20 * One }
NumberParticles == { -1, 0, 1, 2 }
NumberSteps == { 0, 1, 2, 3 }
RunStepLengths == { -(One \div 2), 0, One \div 2 }

NoFrame ==
    [space |-> 0, rng |-> 0, seed |-> 0, particles |-> 0,
     initial_positions |-> None,
     diags |-> << >>, step |-> 0, final_positions |-> None]

\* AppendIgnoreIndex with the frame append() returns thrown away.
AppendDiscarded(df, other) == df

\* DataFrame.append(other, ignore_index=True): the rows of both, relabelled
\* 0, 1, ... in order.
AppendIgnoreIndex(df, other) ==
    LET rows == df \o other
    IN  [i \in 1..Len(rows) |-> [rows[i] EXCEPT !.index = i - 1]]

\* InRange with the end of the range included.
InRangeInclusive(step, number_steps) == step <= number_steps

\* The loop `for step in range(1, number_steps)` runs its body for step.
InRange(step, number_steps) == step < number_steps

\* The call run_random_walk(length_x=, length_y=, number_particles=,
\* number_steps=, step_length=).
Call ==
    /\ pc = "idle"
    /\ Len(returned) < 2
    /\ IF returned = << >>
       THEN \E lx \in LengthXs, ly \in LengthYs, np \in NumberParticles,
               ns \in NumberSteps, sl \in RunStepLengths :
              args' = [length_x |-> lx, length_y |-> ly,
                       number_particles |-> np, number_steps |-> ns,
                       step_length |-> sl]
       ELSE args' = args
    /\ frame' = NoFrame
    /\ taken' = << >>
    /\ pc' = "space"
    /\ UNCHANGED << heap, spaces, rngs, particles, calls, given, snap, ret,
                    returned >>

\* space = PeriodicSpace(length_x=length_x, length_y=length_y)
NewSpace ==
    /\ pc = "space"
    /\ spaces' = Append(spaces, PeriodicSpace(args.length_x, args.length_y))
    /\ frame' = [frame EXCEPT !.space = Len(spaces) + 1]
    /\ pc' = "rng"
    /\ UNCHANGED << heap, rngs, particles, calls, given, snap, ret, args,
                    taken, returned >>

\* rng = np.random.RandomState(): no seed is given, so the stream starts
\* wherever the operating system's entropy puts it.
NewRng ==
    /\ pc = "rng"
    /\ \E seed \in Seeds :
         /\ rngs' = Append(rngs, seed)
         /\ frame' = [frame EXCEPT !.rng = Len(rngs) + 1, !.seed = seed]
    /\ pc' = "particles"
    /\ UNCHANGED << heap, spaces, particles, calls, given, snap, ret, args,
                    taken, returned >>

\* particles = Particles(space=space, rng=rng, x=np.ones(...) * length_x /
\* 2.0, y=..., step_length=step_length); np.ones of a negative count raises
\* ValueError.
NewParticles ==
    /\ pc = "particles"
    /\ IF args.number_particles < 0
       THEN /\ pc' = "raised"
            /\ UNCHANGED << heap, particles, calls, given, frame >>
       ELSE LET x == Centered(args.number_particles, args.length_x)
                y == Centered(args.number_particles, args.length_y)
            IN  /\ heap' = heap \o << x, y >>
                /\ particles' = Append(particles,
                      ParticlesInit(frame.rng, frame.space,
                                    Len(heap) + 1, Len(heap) + 2,
                                    args.step_length))
                /\ calls' = Append(calls, 0)
                /\ given' = Append(given, << x, y >>)
                /\ frame' = [frame EXCEPT !.particles = Len(particles) + 1]
                /\ pc' = "initial_positions"
    /\ UNCHANGED << spaces, rngs, snap, ret, args, taken, returned >>

\* initial_positions = particles.positions()
TrackInitial ==
    /\ pc = "initial_positions"
    /\ LET p == particles[frame.particles]
           f == FrameColumns(heap, p.x, p.y)
       IN  /\ heap' = f.heap
           /\ frame' = [frame EXCEPT !.initial_positions = [x |-> f.x, y |-> f.y]]
    /\ pc' = "diags"
    /\ UNCHANGED << spaces, rngs, particles, calls, given, snap, ret, args,
                    taken, returned >>

\* diags = particles.diagnostics()
InitDiags ==
    /\ pc = "diags"
    /\ frame' = [frame EXCEPT !.diags = diagnostics(heap, particles[frame.particles]),
                              !.step = 1]
    /\ taken' = << [calls |-> calls[frame.particles],
                    steps_done |-> particles[frame.particles].steps_done] >>
    /\ pc' = "loop"
    /\ UNCHANGED << heap, spaces, rngs, particles, calls, given, snap, ret,
                    args, returned >>

\* One pass of the loop body: particles.move(), then
\* diags = diags.append(particles.diagnostics(), ignore_index=True).
LoopBody ==
    /\ pc = "loop"
    /\ InRange(frame.step, args.number_steps)
    /\ LET e == frame.particles
           r == MoveResult(e)
       IN  /\ heap' = r.heap
           /\ rngs' = r.rngs
           /\ particles' = r.particles
           /\ calls' = [calls EXCEPT ![e] = @ + 1]
           /\ taken' = Append(taken,
                 [calls |-> calls[e] + 1,
                  steps_done |-> r.particles[e].steps_done])
           /\ frame' = [frame EXCEPT
                 !.diags = AppendIgnoreIndex(@, diagnostics(r.heap, r.particles[e])),
                 !.step = @ + 1]
    /\ UNCHANGED << spaces, given, snap, ret, pc, args, returned >>

\* The range is exhausted.
LoopExit ==
    /\ pc = "loop"
    /\ ~InRange(frame.step, args.number_steps)
    /\ pc' = "final_positions"
    /\ UNCHANGED << heap, spaces, rngs, particles, calls, given, snap, ret,
                    args, frame, taken, returned >>

\* final_positions = particles.positions()
TrackFinal ==
    /\ pc = "final_positions"
    /\ LET p == particles[frame.particles]
           f == FrameColumns(heap, p.x, p.y)
       IN  /\ heap' = f.heap
           /\ frame' = [frame EXCEPT !.final_positions = [x |-> f.x, y |-> f.y]]
    /\ pc' = "return"
    /\ UNCHANGED << spaces, rngs, particles, calls, given, snap, ret, args,
                    taken, returned >>

\* return diags, initial_positions, final_positions
Return ==
    /\ pc = "return"
    /\ returned' = Append(returned,
          [outcome |-> "returned", diags |-> frame.diags, taken |-> taken,
           initial_positions |-> frame.initial_positions,
           final_positions |-> frame.final_positions,
           particles |-> frame.particles, seed |-> frame.seed])
    /\ pc' = "idle"
    /\ UNCHANGED << heap, spaces, rngs, particles, calls, given, snap, ret,
                    args, frame, taken >>

\* The ValueError leaves run_random_walk; its locals die with it.
Raise ==
    /\ pc = "raised"
    /\ returned' = Append(returned,
          [outcome |-> "ValueError", diags |-> << >>, taken |-> << >>,
           initial_positions |-> None, final_positions |-> None,
           particles |-> 0, seed |-> frame.seed])
    /\ pc' = "idle"
    /\ UNCHANGED << heap, spaces, rngs, particles, calls, given, snap, ret,
                    args, frame, taken >>

NextRun ==
    \/ Call
    \/ NewSpace
    \/ NewRng
    \/ NewParticles
    \/ TrackInitial
    \/ InitDiags
    \/ LoopBody
    \/ LoopExit
    \/ TrackFinal
    \/ Return
    \/ Raise

SpecRun == Init /\ [][NextRun]_vars

(***************************************************************************)
(* normalize_positions on its own: a caller applies it to one coordinate   *)
(* pair in the default domain or in one of its own.                        *)
(***************************************************************************)
\* The coordinates tried: every float from -12.0 to 24.0.
Coordinates == { v \in (-(12 * One)) .. (24 * One) : IsFloat(v) }

\* The caller has chosen a domain and a coordinate pair.
InitNormalize ==
    /\ \E x \in Coordinates, y \in Coordinates,
          ext \in OwnExtents \cup { << 10 * One, 20 * One >> } :
         ret = [op |-> "arguments", space |-> PeriodicSpace(ext[1], ext[2]),
                x |-> x, y |-> y, value |-> << >>]
    /\ heap = << >>
    /\ spaces = << PeriodicSpace(10 * One, 20 * One) >>
    /\ \E s \in Seeds : rngs = << s >>
    /\ particles = << >>
    /\ calls = << >>
    /\ given = << >>
    /\ snap = None
    /\ pc = "idle"
    /\ args = None
    /\ frame = None
    /\ taken = << >>
    /\ returned = << >>

\* space.normalize_positions(x=x, y=y)
NormalizeCall ==
    /\ ret.op = "arguments"
    /\ ret' = [ret EXCEPT
                 !.op = "normalize_positions",
                 !.value = normalize_positions(ret.space, << ret.x >>, << ret.y >>)]
    /\ UNCHANGED << heap, spaces, rngs, particles, calls, given, snap, runVars >>

SpecNormalize == InitNormalize /\ [][NormalizeCall]_vars

(***************************************************************************)
(* The claims.                                                             *)
(***************************************************************************)
PositiveExtents(space) == space.length_x > 0 /\ space.length_y > 0

\* Every element of array a is a number in [0, length).
Within(a, length) ==
    \A i \in 1..Len(a) : a[i] # NaN /\ 0 <= a[i] /\ a[i] < length

\* The live positions of ensemble e lie in its domain.
InDomain(e) ==
    /\ Within(heap[particles[e].x], spaces[particles[e].space].length_x)
    /\ Within(heap[particles[e].y], spaces[particles[e].space].length_y)

\* C1: boundary containment.  In a domain of positive extents, after any
\* number (>= 1) of move() calls, every particle has 0 <= x < length_x and
\* 0 <= y < length_y, whatever the step length and the draws.
C1_BoundaryContainment ==
    \A e \in DOMAIN particles :
        (calls[e] >= 1 /\ PositiveExtents(spaces[particles[e].space]))
            => InDomain(e)

\* v is the representative of coordinate c in [0, length): in range, and a
\* whole number k of extents away from c, as nearly as a float can be.
Canonical(c, v, length) ==
    /\ v # NaN /\ 0 <= v /\ v < length
    /\ \E k \in -(Abs(c) + 1) .. (Abs(c) + 1) : v = RoundRat(c + k * length, 1)

\* C2: normalize_positions returns, per axis, the canonical periodic
\* representative of its input: the value in [0, length) a whole number of
\* extents away; so a negative input gives a non-negative result, the
\* extent itself gives 0 and a value already in range comes back unchanged.
C2_CanonicalRepresentative ==
    ret # None /\ ret.op = "normalize_positions" =>
        /\ Canonical(ret.x, ret.value[1][1], ret.space.length_x)
        /\ Canonical(ret.y, ret.value[2][1], ret.space.length_y)
        /\ (ret.x = ret.space.length_x => ret.value[1][1] = 0)
        /\ (ret.x >= 0 /\ ret.x < ret.space.length_x => ret.value[1][1] = ret.x)
        /\ (ret.y = ret.space.length_y => ret.value[2][1] = 0)
        /\ (ret.y >= 0 /\ ret.y < ret.space.length_y => ret.value[2][1] = ret.y)

\* C3: step counting.  steps_done is 0 at construction and is the number
\* of move() calls made since, whatever queries ran in between.
C3_StepCounting ==
    \A e \in DOMAIN particles : particles[e].steps_done = calls[e]

\* C3 witness: the most move() calls, the last operation a query.
C3_Witness ==
    /\ Len(particles) = 1 /\ calls[1] = MaxSteps
    /\ particles[1].steps_done = MaxSteps
    /\ ret # None /\ ret.op = "diagnostics"

\* C6: snapshot independence.  The DataFrame positions() returned holds
\* the positions of the moment of the call, whatever move() calls follow.
C6_SnapshotIndependence ==
    snap # None => heap[snap.x] = snap.x0 /\ heap[snap.y] = snap.y0

\* C6 witness: a snapshot taken before the first move(), two moves later,
\* the ensemble's positions no longer those of the snapshot.
C6_Witness ==
    /\ snap # None /\ snap.at = 0 /\ calls[snap.of] = MaxSteps
    /\ heap[particles[snap.of].x] # snap.x0
    /\ heap[snap.x] = snap.x0

\* C6 in run_random_walk: the initial_positions it returns are the
\* constructor positions, however many steps ran.
C6_InitialPositionsKept ==
    \A k \in DOMAIN returned :
        returned[k].outcome = "returned" =>
            /\ heap[returned[k].initial_positions.x] = given[returned[k].particles][1]
            /\ heap[returned[k].initial_positions.y] = given[returned[k].particles][2]

\* C8: zero step length.  With step_length = 0 and the constructor
\* positions inside the domain, every move() leaves x and y as constructed,
\* and still counts.
C8_ZeroStepLengthStability ==
    \A e \in DOMAIN particles :
        LET p == particles[e]
        IN  ( /\ p.step_length = 0
              /\ Within(given[e][1], spaces[p.space].length_x)
              /\ Within(given[e][2], spaces[p.space].length_y) )
            => /\ heap[p.x] = given[e][1]
               /\ heap[p.y] = given[e][2]
               /\ p.steps_done = calls[e]

\* C8 witness: two particles at the centre, step_length 0, moved twice.
C8_Witness ==
    /\ Len(particles) = 1 /\ particles[1].step_length = 0
    /\ calls[1] = MaxSteps /\ particles[1].steps_done = MaxSteps
    /\ Len(given[1][1]) = 2 /\ InDomain(1)
    /\ heap[particles[1].x] = given[1][1]

\* C10: exclusive ownership of the random source.  A move() on one
\* ensemble leaves the stream of every other ensemble where it was.
C10_ExclusiveRng ==
    [][ \A a \in DOMAIN particles, b \in DOMAIN particles :
          (a # b /\ calls'[a] = calls[a] + 1)
              => rngs'[particles[b].rng] = rngs[particles[b].rng] ]_vars

\* The executions of run_random_walk that returned a result.
Results == { k \in DOMAIN returned : returned[k].outcome = "returned" }

Invalid(a) ==
    \/ a.length_x <= 0
    \/ a.length_y <= 0
    \/ a.step_length < 0
    \/ a.number_particles <= 0
    \/ a.number_steps <= 0

\* C5: validation before construction.  Called with an invalid argument,
\* run_random_walk constructs no domain, no random source and no ensemble,
\* and returns no result.
C5_ValidationBeforeConstruction ==
    (args # None /\ Invalid(args)) =>
        /\ Len(spaces) = 1
        /\ Len(rngs) = 1
        /\ Len(particles) = 0
        /\ Results = {}

C9_Determinism ==
    (Len(returned) = 2 /\ Results = {1, 2}) =>
        /\ returned[1].diags = returned[2].diags
        /\ heap[returned[1].final_positions.x] = heap[returned[2].final_positions.x]
        /\ heap[returned[1].final_positions.y] = heap[returned[2].final_positions.y]

\* Beside C9: the walk is a function of its arguments and of where the
\* stream starts; two executions whose streams start alike return alike.
C9_SameStreamSameResult ==
    (Len(returned) = 2 /\ Results = {1, 2}
        /\ returned[1].seed = returned[2].seed) =>
        /\ returned[1].diags = returned[2].diags
        /\ heap[returned[1].final_positions.x] = heap[returned[2].final_positions.x]
        /\ heap[returned[1].final_positions.y] = heap[returned[2].final_positions.y]

\* Ensemble e's state as a caller sees it: the positions and the fields.
Observed(h, p) ==
    [x |-> h[p.x], y |-> h[p.y], steps_done |-> p.steps_done,
     step_length |-> p.step_length]

\* C11: move() is the only operation that changes an ensemble: a step
\* that is no move() of ensemble e (a query, positions() included) leaves
\* its x, y, steps_done and step_length as they were; and no step, move()
\* included, changes the extents of a domain once constructed.
C11_MoveSoleMutator ==
    [][ /\ \A e \in DOMAIN particles :
             calls'[e] = calls[e] =>
                 Observed(heap', particles'[e]) = Observed(heap, particles[e])
        /\ \A d \in DOMAIN spaces : spaces'[d] = spaces[d] ]_vars

\* C11 witness: each kind of query has run on a moved ensemble in its own
\* domain; here positions() has been taken and a diagnostics() came last.
C11_Witness ==
    /\ Len(particles) = 1 /\ calls[1] = MaxSteps
    /\ particles[1].space # DefaultSpace
    /\ snap # None /\ snap.at >= 1
    /\ ret # None /\ ret.op = "diagnostics"
    /\ particles[1].steps_done = MaxSteps

\* C12: aliasing of the constructor arrays.  The ensemble refers to the
\* very arrays it was constructed with (the heap's first two, for the one
\* ensemble of SpecEnsemble) until its first move(); that move() adds the
\* scaled draws into those arrays, which keep the sums as they are, not
\* normalized, and rebinds x and y to new arrays; no later move() changes
\* the constructor arrays.
C12_ConstructorArraysAliased ==
    [][ Len(particles) = 1 =>
          LET p  == particles[1]
              nx == Len(heap[1])
              dx == Normal(rngs[p.rng], nx)
              dy == Normal(Advance(rngs[p.rng], nx), Len(heap[2]))
          IN  /\ calls[1] = 0 => p.x = 1 /\ p.y = 2
              /\ (calls[1] = 0 /\ calls'[1] = 1) =>
                    /\ \A i \in 1..Len(heap[1]) :
                         heap'[1][i] = FAdd(heap[1][i], FMul(p.step_length, dx[i]))
                    /\ \A i \in 1..Len(heap[2]) :
                         heap'[2][i] = FAdd(heap[2][i], FMul(p.step_length, dy[i]))
                    /\ particles'[1].x \notin {1, 2}
                    /\ particles'[1].y \notin {1, 2}
              /\ calls[1] >= 1 =>
                    /\ heap'[1] = heap[1] /\ heap'[2] = heap[2]
                    /\ particles'[1].x \notin {1, 2}
                    /\ particles'[1].y \notin {1, 2} ]_vars

\* C12 witness: constructed inside the domain and moved twice, the
\* constructor's x array holds a value outside the domain, while the
\* ensemble's positions are inside.
C12_Witness ==
    /\ Len(particles) = 1 /\ calls[1] = MaxSteps
    /\ Within(given[1][1], spaces[particles[1].space].length_x)
    /\ ~Within(heap[1], spaces[particles[1].space].length_x)
    /\ heap[1] # given[1][1]
    /\ InDomain(1)
====
